---------------------------- MODULE Spec2Model ----------------------------
(***************************************************************************)
(* Model of cache_coloring/analysis.py: the result-file extractor          *)
(* per_vision_data and the normalizer percent_change.                      *)
(*                                                                         *)
(* A line of text is a sequence of one-character strings, so that the      *)
(* code's tests on a line (empty, first character, equality, float         *)
(* parsing) are computed on the text itself.  A float is a reduced         *)
(* fraction [n, d] with d > 0.                                             *)
(***************************************************************************)
EXTENDS Integers, Sequences, FiniteSets, TLC

(***************************************************************************)
(* Bounds of the model.                                                    *)
(***************************************************************************)
\* longest result file among the exhaustively enumerated ones
MaxLen == 5
\* while-loop iterations followed per file once end-of-file has been passed
MaxSpin == 2
\* longest series handed to percent_change
MaxArr == 3
\* largest value in a series handed to percent_change
MaxVal == 4

(***************************************************************************)
(* Text.                                                                   *)
(***************************************************************************)
Dashes(k) == [i \in 1..k |-> "-"]

\* dataset['cif'], dataset['vga']
cif == Dashes(26) \o <<"1">> \o Dashes(32)
vga == Dashes(26) \o <<"2">> \o Dashes(32)

disparityName == <<"d","i","s","p","a","r","i","t","y">>
mserName == <<"m","s","e","r">>
trackingName == <<"t","r","a","c","k","i","n","g">>

DigitChars == <<"0","1","2","3","4","5","6","7","8","9">>
IsDigit(c) == \E k \in 1..10 : DigitChars[k] = c
DigitVal(c) == (CHOOSE k \in 1..10 : DigitChars[k] = c) - 1

\* str.strip(): leading and trailing whitespace removed
RECURSIVE LStrip(_)
LStrip(l) == IF l # <<>> /\ Head(l) = " " THEN LStrip(Tail(l)) ELSE l
RECURSIVE RStrip(_)
RStrip(l) == IF l # <<>> /\ l[Len(l)] = " "
             THEN RStrip(SubSeq(l, 1, Len(l) - 1)) ELSE l
Strip(l) == RStrip(LStrip(l))

(***************************************************************************)
(* Floats.                                                                 *)
(***************************************************************************)
RECURSIVE GCD(_, _)
GCD(a, b) == IF b = 0 THEN a ELSE GCD(b, a % b)
Abs(x) == IF x < 0 THEN -x ELSE x
\* the value n/d, reduced (d # 0)
Frac(n, d) == LET g == GCD(Abs(n), Abs(d))
                  s == IF d < 0 THEN -1 ELSE 1
              IN  [n |-> s * (n \div g), d |-> s * (d \div g)]
\* a / b
TrueDiv(a, b) == Frac(a.n * b.d, a.d * b.n)
\* a > b
Greater(a, b) == a.n * b.d > b.n * a.d
One == Frac(1, 1)

RECURSIVE Pow10(_)
Pow10(k) == IF k = 0 THEN 1 ELSE 10 * Pow10(k - 1)
RECURSIVE DecimalValue(_)
DecimalValue(ds) ==
    IF ds = <<>> THEN 0
    ELSE 10 * DecimalValue(SubSeq(ds, 1, Len(ds) - 1)) + DigitVal(ds[Len(ds)])

Unsigned(l) == IF l # <<>> /\ Head(l) \in {"+", "-"} THEN Tail(l) ELSE l
\* float(text) succeeds: an optional sign, digits, at most one point.  (The
\* exponent, inf and nan spellings do not occur in the files enumerated.)
IsFloatText(l) ==
    LET u == Unsigned(l) IN
    /\ \A i \in 1..Len(u) : IsDigit(u[i]) \/ u[i] = "."
    /\ Cardinality({i \in 1..Len(u) : u[i] = "."}) <= 1
    /\ \E i \in 1..Len(u) : IsDigit(u[i])
\* float(text), for a text float accepts
Float(l) ==
    LET u    == Unsigned(l)
        dots == {i \in 1..Len(u) : u[i] = "."}
        frac == IF dots = {} THEN 0 ELSE Len(u) - (CHOOSE i \in dots : TRUE)
        mant == DecimalValue(SelectSeq(u, IsDigit))
        sign == IF l # <<>> /\ Head(l) = "-" THEN -1 ELSE 1
    IN  Frac(sign * mant, Pow10(frac))

(***************************************************************************)
(* The state of one call of per_vision_data.                               *)
(***************************************************************************)
VARIABLES
    disk,          \* the result files under `folder`
    dataset,       \* the marker passed to per_vision_data
    disparity,     \* dict: type -> list of floats
    mser,          \* dict: type -> list of floats
    tracking,      \* dict: type -> list of floats
    ti,            \* index into types of the loop variable t (0: before the loop)
    si,            \* index into sizes of the loop variable s (0: before the loop)
    pos,           \* lines of the open file consumed so far
    collect_data,  \* the collecting flag
    pc,            \* where the call stands
    opened,        \* history: the (type, size) of every file opened, in order
    got,           \* history: what the scan of the open file appended, and from where
    before,        \* history: the three series' lengths when the file was opened
    oneEach,       \* history: every finished scan appended one value per metric
    spin,          \* history: iterations of the open file's loop begun at end-of-file
    arr,           \* percent_change: the list, changed in place
    orig,          \* history: the list as percent_change received it
    i              \* percent_change: the loop variable

vars == <<disk, dataset, disparity, mser, tracking, ti, si, pos, collect_data,
          pc, opened, got, before, oneEach, spin, arr, orig, i>>

extractVars == <<disk, dataset, disparity, mser, tracking, ti, si, pos,
                 collect_data, opened, got, before, oneEach, spin>>
normVars == <<arr, orig, i>>


(***************************************************************************)
(* Program constants of per_vision_data.                                   *)
(***************************************************************************)
types == <<"none", "read", "write", "modify", "prefetch_l3">>

\* list(range(a, b, step))
RECURSIVE Range(_, _, _)
Range(a, b, step) == IF a >= b THEN <<>> ELSE <<a>> \o Range(a + step, b, step)
sizes == Range(8, 64, 8) \o Range(64, 512, 32) \o Range(512, 8192 + 512, 512)

EmptyDict == [k \in {} |-> <<>>]
\* d[key] = value
SetItem(d, key, value) == (key :> value) @@ d

(***************************************************************************)
(* Result files.  `disk` says which files the folder holds:                *)
(*   kind "probe": the one file scanned is disk.lines, any text;           *)
(*   kind "block": the one file scanned is laid out in sections;           *)
(*   kind "bench": every {type}_{size}.txt holds a cif and a vga section,  *)
(*                 one of them possibly damaged (disk.fault at disk.at).   *)
(***************************************************************************)
blank == <<>>
word == <<"x">>
text15 == <<"1", ".", "5">>
text20 == <<"2", ".", "0">>
text05 == <<"0", ".", "5">>
minus15 == <<"-", "1", ".", "5">>
spaces == <<" ", " ">>

metricNames == <<disparityName, mserName, trackingName>>

\* str(n), n >= 0
RECURSIVE Str(_)
Str(n) == IF n < 10 THEN <<DigitChars[n + 1]>>
          ELSE Str(n \div 10) \o <<DigitChars[(n % 10) + 1]>>

\* sequences over S of length 0..k
RECURSIVE SeqsUpTo(_, _)
SeqsUpTo(S, k) ==
    IF k = 0 THEN {<<>>}
    ELSE LET shorter == SeqsUpTo(S, k - 1)
         IN  shorter \cup {Append(q, x) : q \in {r \in shorter : Len(r) = k - 1}, x \in S}

ProbeAlphabet == {blank, cif, vga, disparityName, text15, word}
ProbeDisks == [kind : {"probe"}, lines : SeqsUpTo(ProbeAlphabet, MaxLen)]

\* the value line written under a metric name in the sections enumerated
SampleText(name) == CASE name = disparityName -> text15
                      [] name = mserName -> text20
                      [] name = trackingName -> text05

RECURSIVE Pairs(_)
Pairs(names) == IF names = <<>> THEN <<>>
                ELSE <<Head(names), SampleText(Head(names))>> \o Pairs(Tail(names))

\* the metric names of a section: any of the three, each at most once, any order
NameOrders == {q \in SeqsUpTo({disparityName, mserName, trackingName}, 3) :
                 \A a, b \in 1..Len(q) : a # b => q[a] # q[b]}

BlockDisks ==
    [kind    : {"block"},
     lead    : {<<>>, <<word>>, <<disparityName, text20>>},
     after   : {<<>>, <<word>>, <<spaces>>},
     names   : NameOrders,
     term    : {<<>>, <<blank>>, <<vga>>, <<cif>>, <<disparityName, minus15>>},
     trailer : {<<>>, <<word, disparityName, text20, blank>>}]

\* the text of a "block" file whose section is introduced by marker
BlockLines(d, marker) ==
    d.lead \o <<marker>> \o d.after \o Pairs(d.names) \o d.term \o d.trailer


\* the value line of metric number m (1..3) in the section of resolution
\* number res (0: cif, 1: vga) of {type k}_{sz}.txt: distinct for every
\* (type, size, metric, resolution)
ValueText(k, sz, m, res) == Str(k * 10000 + sz) \o <<".">> \o Str(m + 3 * res)

\* one pair of lines per metric, under fault `fault`
SectionPairs(k, sz, res, fault) ==
    LET valueOf(m) == IF fault = "badFloat" THEN word ELSE ValueText(k, sz, m, res)
    IN  <<disparityName, valueOf(1), mserName, valueOf(2)>>
        \o (IF fault = "extraMser" THEN <<mserName, valueOf(2)>> ELSE <<>>)
        \o (IF fault = "dropTracking" THEN <<>> ELSE <<trackingName, valueOf(3)>>)

\* a section: its marker, one line the scan passes over, the metric pairs
Section(marker, k, sz, res, fault) ==
    (IF fault = "noMarker" THEN <<>> ELSE <<marker>>)
    \o <<word>> \o SectionPairs(k, sz, res, fault)

BenchFaults == {"noMarker", "badFloat", "extraMser", "dropTracking"}
\* where the damaged file may be: (index into types, index into sizes)
FaultPlaces == {<<1, 1>>, <<2, 1>>, <<4, 9>>}
BenchDisks ==
    [kind : {"bench"}, lead : {<<>>, <<word>>}, fault : {"ok"}, at : {<<0, 0>>}]
    \cup [kind : {"bench"}, lead : {<<>>, <<word>>}, fault : BenchFaults, at : FaultPlaces]

BenchLines(d, k, j) ==
    LET fault == IF d.at = <<k, j>> THEN d.fault ELSE "ok"
    IN  d.lead \o Section(cif, k, sizes[j], 0, fault)
               \o Section(vga, k, sizes[j], 1, fault)

\* the text of {folder}/{types[k]}_{sizes[j]}.txt, line by line (line ends
\* dropped), when per_vision_data is asked for the sections under marker
FileLines(d, k, j, marker) ==
    CASE d.kind = "probe" -> d.lines
      [] d.kind = "block" -> BlockLines(d, marker)
      [] d.kind = "bench" -> BenchLines(d, k, j)

(***************************************************************************)
(* The scan of one file, lines 46-73.                                      *)
(***************************************************************************)
\* file.readline().strip() with p lines consumed: '' at end-of-file
ReadLine(f, p) == IF p < Len(f) THEN Strip(f[p + 1]) ELSE <<>>
\* the file position after one more readline()
Advance(f, p) == IF p < Len(f) THEN p + 1 ELSE p

IsMetric(line) == line \in {disparityName, mserName, trackingName}

\* lines 55-61 reach a float(line2)
AppendsMutant(c, line1, line2) == IsMetric(line1)
Appends(c, line1, line2) == c = 1 /\ IsMetric(line1)

\* lines 64-67: the loop breaks
BreaksMutant(c, line1, line2) ==
    \/ c = 1 /\ (line1 = <<>> \/ line2 = <<>>)
    \/ c = 1 /\ line1[1] = "-"
Breaks(c, line1, line2) ==
    \/ c = 1 /\ (line1 = <<>> \/ line2 = <<>>)
    \/ c = 1 /\ (line1[1] = "-" \/ line2[1] = "-")

\* lines 68-70: with the marker on the second line of the pair, one more
\* line is read
AfterMarkerMutant(f, p2, line2, marker) == p2
AfterMarker(f, p2, line2, marker) == IF line2 = marker THEN Advance(f, p2) ELSE p2

\* lines 68-73: the flag after the pair
FlagAfter(c, line1, line2, marker) ==
    LET line1b == IF line2 = marker THEN line2 ELSE line1
    IN  IF line2 = marker \/ line1b = marker THEN 1 ELSE c

\* One iteration of the `while True` loop on file f with p lines consumed and
\* the flag at c.  ctl: "loop" (iterate again), "break", or "ValueError"
\* (float() raised); app: the appends made, each with the metric name, the
\* float and the number of the name's line in the file.
LoopBody(f, marker, p, c) ==
    LET line1 == ReadLine(f, p)
        p1    == Advance(f, p)
        line2 == ReadLine(f, p1)
        p2    == Advance(f, p1)
        app   == IF Appends(c, line1, line2) /\ IsFloatText(line2)
                 THEN <<[name |-> line1, value |-> Float(line2), at |-> p + 1]>>
                 ELSE <<>>
    IN  IF Appends(c, line1, line2) /\ ~IsFloatText(line2)
        THEN [ctl |-> "ValueError", pos |-> p2, collect_data |-> c, app |-> <<>>]
        ELSE IF Breaks(c, line1, line2)
        THEN [ctl |-> "break", pos |-> p2, collect_data |-> c, app |-> app]
        ELSE [ctl |-> "loop", pos |-> AfterMarker(f, p2, line2, marker),
              collect_data |-> FlagAfter(c, line1, line2, marker), app |-> app]

\* the list after the appends of one iteration that name this metric
Extend(list, app, name) ==
    LET mine == SelectSeq(app, LAMBDA a : a.name = name)
    IN  list \o [k \in 1..Len(mine) |-> mine[k].value]

t == types[ti]
s == sizes[si]
file == FileLines(disk, ti, si, dataset)
Lengths == [name \in {disparityName, mserName, trackingName} |->
              CASE name = disparityName -> Len(disparity[t])
                [] name = mserName -> Len(mser[t])
                [] name = trackingName -> Len(tracking[t])]

\* lines 45-47: open the file of (t, s), the flag cleared
OpenFile ==
    /\ pc = "open"
    /\ pc' = "scan"
    /\ collect_data' = 0
    /\ pos' = 0
    /\ opened' = Append(opened, <<t, s>>)
    /\ got' = <<>>
    /\ before' = Lengths
    /\ spin' = 0
    /\ UNCHANGED <<disk, dataset, disparity, mser, tracking, ti, si, oneEach>>
    /\ UNCHANGED normVars

\* lines 48-73: one iteration of the while loop; on break the file is closed
\* and the for loop over sizes goes on
ScanIter ==
    /\ pc = "scan"
    /\ spin < MaxSpin
    /\ LET r == LoopBody(file, dataset, pos, collect_data)
           d2 == Extend(disparity[t], r.app, disparityName)
           m2 == Extend(mser[t], r.app, mserName)
           t2 == Extend(tracking[t], r.app, trackingName)
       IN  /\ disparity' = [disparity EXCEPT ![t] = d2]
           /\ mser' = [mser EXCEPT ![t] = m2]
           /\ tracking' = [tracking EXCEPT ![t] = t2]
           /\ got' = got \o r.app
           /\ pos' = r.pos
           /\ collect_data' = r.collect_data
           /\ spin' = IF pos >= Len(file) THEN spin + 1 ELSE spin
           /\ pc' = CASE r.ctl = "loop" -> "scan"
                      [] r.ctl = "break" -> "for_s"
                      [] r.ctl = "ValueError" -> "ValueError"
           /\ oneEach' = IF r.ctl = "break"
                         THEN oneEach /\ Len(d2) = before[disparityName] + 1
                                      /\ Len(m2) = before[mserName] + 1
                                      /\ Len(t2) = before[trackingName] + 1
                         ELSE oneEach
    /\ UNCHANGED <<disk, dataset, ti, si, opened, before>>
    /\ UNCHANGED normVars

(***************************************************************************)
(* The scan of a single file: the call stands at line 45 for the first     *)
(* file, none_8.txt, whose text is any of the enumerated ones.             *)
(***************************************************************************)
InitScan ==
    /\ disk \in ProbeDisks \cup BlockDisks
    /\ dataset \in {cif, vga}
    /\ disparity = SetItem(EmptyDict, "none", <<>>)
    /\ mser = SetItem(EmptyDict, "none", <<>>)
    /\ tracking = SetItem(EmptyDict, "none", <<>>)
    /\ ti = 1 /\ si = 1
    /\ pos = 0 /\ collect_data = 0
    /\ pc = "open"
    /\ opened = <<>> /\ got = <<>>
    /\ before = [name \in {disparityName, mserName, trackingName} |-> 0]
    /\ oneEach = TRUE
    /\ spin = 0
    /\ arr = <<>> /\ orig = <<>> /\ i = 0

NextScan == OpenFile \/ ScanIter

SpecScan == InitScan /\ [][NextScan]_vars

(***************************************************************************)
(* per_vision_data, lines 23-80.                                           *)
(***************************************************************************)
\* line 43: the file of (tt, ss) is passed over
SkipFileMutant(tt, ss) == tt = "none" /\ ss >= 8
SkipFile(tt, ss) == tt = "none" /\ ss > 8

\* lines 37-40: the next type, its three lists created empty
ForType ==
    /\ pc = "for_t"
    /\ ti < Len(types)
    /\ ti' = ti + 1
    /\ si' = 0
    /\ disparity' = SetItem(disparity, types[ti + 1], <<>>)
    /\ mser' = SetItem(mser, types[ti + 1], <<>>)
    /\ tracking' = SetItem(tracking, types[ti + 1], <<>>)
    /\ pc' = "for_s"
    /\ UNCHANGED <<disk, dataset, pos, collect_data, opened, got, before, oneEach, spin>>
    /\ UNCHANGED normVars

\* line 37 exhausted, line 75: the loop over types[1:] begins
EndTypes ==
    /\ pc = "for_t"
    /\ ti = Len(types)
    /\ ti' = 1
    /\ pc' = "prepend"
    /\ UNCHANGED <<disk, dataset, disparity, mser, tracking, si, pos, collect_data,
                   opened, got, before, oneEach, spin>>
    /\ UNCHANGED normVars

\* lines 42-45: the next size, whose file is to be opened
NextSize ==
    /\ pc = "for_s"
    /\ si < Len(sizes)
    /\ ~SkipFile(t, sizes[si + 1])
    /\ si' = si + 1
    /\ pc' = "open"
    /\ UNCHANGED <<disk, dataset, disparity, mser, tracking, ti, pos, collect_data,
                   opened, got, before, oneEach, spin>>
    /\ UNCHANGED normVars

\* lines 42-44: the next size, passed over
SkipNone ==
    /\ pc = "for_s"
    /\ si < Len(sizes)
    /\ SkipFile(t, sizes[si + 1])
    /\ si' = si + 1
    /\ UNCHANGED <<disk, dataset, disparity, mser, tracking, ti, pos, collect_data,
                   pc, opened, got, before, oneEach, spin>>
    /\ UNCHANGED normVars

\* line 42 exhausted: back to line 37
EndSizes ==
    /\ pc = "for_s"
    /\ si = Len(sizes)
    /\ pc' = "for_t"
    /\ UNCHANGED <<disk, dataset, disparity, mser, tracking, ti, si, pos, collect_data,
                   opened, got, before, oneEach, spin>>
    /\ UNCHANGED normVars

\* list.insert(0, v)
Insert0Mutant(list, v) == Append(list, v)
Insert0(list, v) == <<v>> \o list

\* lines 75-78: the next type of types[1:] and its three inserts; list[0] of an
\* empty list raises IndexError, the inserts before it done
Prepend ==
    /\ pc = "prepend"
    /\ ti < Len(types)
    /\ ti' = ti + 1
    /\ LET tt == types[ti + 1] IN
       IF Len(disparity["none"]) = 0
       THEN /\ pc' = "IndexError"
            /\ UNCHANGED <<disparity, mser, tracking>>
       ELSE /\ disparity' = [disparity EXCEPT ![tt] = Insert0(@, disparity["none"][1])]
            /\ mser' = [mser EXCEPT ![tt] = Insert0(@, disparity["none"][1])]
            /\ IF Len(tracking["none"]) = 0
               THEN /\ pc' = "IndexError"
                    /\ UNCHANGED tracking
               ELSE /\ pc' = "prepend"
                    /\ tracking' = [tracking EXCEPT ![tt] = Insert0(@, tracking["none"][1])]
    /\ UNCHANGED <<disk, dataset, si, pos, collect_data, opened, got, before, oneEach, spin>>
    /\ UNCHANGED normVars

\* line 80
Return ==
    /\ pc = "prepend"
    /\ ti = Len(types)
    /\ pc' = "done"
    /\ UNCHANGED extractVars
    /\ UNCHANGED normVars

Init ==
    /\ disk \in BenchDisks
    /\ dataset \in {cif, vga}
    /\ disparity = EmptyDict /\ mser = EmptyDict /\ tracking = EmptyDict
    /\ ti = 0 /\ si = 0
    /\ pos = 0 /\ collect_data = 0
    /\ pc = "for_t"
    /\ opened = <<>> /\ got = <<>>
    /\ before = [name \in {disparityName, mserName, trackingName} |-> 0]
    /\ oneEach = TRUE
    /\ spin = 0
    /\ arr = <<>> /\ orig = <<>> /\ i = 0

Next ==
    \/ ForType \/ EndTypes \/ NextSize \/ SkipNone \/ EndSizes
    \/ OpenFile \/ ScanIter \/ Prepend \/ Return

Spec == Init /\ [][Next]_vars

(***************************************************************************)
(* percent_change, lines 121-127.  arr[k] of the code is arr[k + 1] here.  *)
(***************************************************************************)
\* line 122
BaselineIsLargerMutant(a) == Greater(a[2], a[1])
BaselineIsLarger(a) == Greater(a[1], a[2])

\* lines 122-123, the baseline replaced
ReplaceBaseline ==
    /\ pc = "if"
    /\ BaselineIsLarger(arr)
    /\ arr' = [arr EXCEPT ![1] = arr[2]]
    /\ i' = 1
    /\ pc' = "for"
    /\ UNCHANGED orig
    /\ UNCHANGED extractVars

\* line 122, the baseline kept
KeepBaseline ==
    /\ pc = "if"
    /\ ~BaselineIsLarger(arr)
    /\ i' = 1
    /\ pc' = "for"
    /\ UNCHANGED <<arr, orig>>
    /\ UNCHANGED extractVars

\* lines 124-125, one iteration
Divide ==
    /\ pc = "for"
    /\ i < Len(arr)
    /\ arr' = [arr EXCEPT ![i + 1] = TrueDiv(arr[i + 1], arr[1])]
    /\ i' = i + 1
    /\ UNCHANGED <<pc, orig>>
    /\ UNCHANGED extractVars

\* lines 126-127
ForceOne ==
    /\ pc = "for"
    /\ i = Len(arr)
    /\ arr' = [arr EXCEPT ![1] = One]
    /\ pc' = "return"
    /\ UNCHANGED <<i, orig>>
    /\ UNCHANGED extractVars

\* the series handed to percent_change: 2..MaxArr positive floats
NormValues == {Frac(v, 2) : v \in 1..MaxVal}
NormInputs == {q \in SeqsUpTo(NormValues, MaxArr) : Len(q) >= 2}

InitNorm ==
    /\ arr \in NormInputs
    /\ orig = arr
    /\ i = 0
    /\ pc = "if"
    /\ disk = [kind |-> "none"]
    /\ dataset = cif
    /\ disparity = EmptyDict /\ mser = EmptyDict /\ tracking = EmptyDict
    /\ ti = 0 /\ si = 0
    /\ pos = 0 /\ collect_data = 0
    /\ opened = <<>> /\ got = <<>>
    /\ before = [name \in {disparityName, mserName, trackingName} |-> 0]
    /\ oneEach = TRUE
    /\ spin = 0

NextNorm == ReplaceBaseline \/ KeepBaseline \/ Divide \/ ForceOne

SpecNorm == InitNorm /\ [][NextNorm]_vars

(***************************************************************************)
(* Properties.                                                             *)
(***************************************************************************)
Types1 == {types[k] : k \in 2..Len(types)}

\* C3: percent_change on a series of two or more positive values returns
\* element 0 equal to 1 and every later element equal to the original element
\* divided by the smaller of the original elements 0 and 1; so element 1 is 1
\* whenever the original element 1 was below element 0.
C3_Normalized ==
    pc = "return" =>
        LET base == IF Greater(orig[1], orig[2]) THEN orig[2] ELSE orig[1] IN
        /\ Len(arr) = Len(orig)
        /\ arr[1] = One
        /\ \A k \in 2..Len(orig) : arr[k] = TrueDiv(orig[k], base)
        /\ (Greater(orig[1], orig[2]) => arr[2] = One)
C3_Witness ==
    /\ pc = "return"
    /\ Len(orig) >= 3
    /\ Greater(orig[1], orig[2])
    /\ arr[3] # orig[3]

\* the numbers of the lines of f that are the marker
MarkerLines(f, marker) == {k \in 1..Len(f) : Strip(f[k]) = marker}
Least(S) == CHOOSE k \in S : \A j \in S : k <= j
\* the number of the first marker line of f, 0 when there is none
FirstMarker(f, marker) ==
    IF MarkerLines(f, marker) = {} THEN 0 ELSE Least(MarkerLines(f, marker))
\* the number of the second marker line of f, 0 when there is none
SecondMarker(f, marker) ==
    LET later == MarkerLines(f, marker) \ {FirstMarker(f, marker)}
    IN  IF later = {} THEN 0 ELSE Least(later)
\* line k of f is a metric name and line k + 1 a number
PairAt(f, k) == /\ k + 1 <= Len(f)
                /\ IsMetric(Strip(f[k]))
                /\ IsFloatText(Strip(f[k + 1]))
\* the number written under the first line `name` after the first marker
ValueInFile(f, marker, name) ==
    LET at == Least({k \in (FirstMarker(f, marker) + 1)..Len(f) : Strip(f[k]) = name})
    IN  Float(Strip(f[at + 1]))
\* the scan of the open file is over
ScanOver == pc \in {"for_s", "ValueError"}

\* C1: on return, element 0 of every non-baseline series of each metric is
\* the `none` series' value of the same metric.
C1_BaselinePrepend ==
    pc = "done" =>
        \A tt \in Types1 :
            /\ disparity[tt][1] = disparity["none"][1]
            /\ mser[tt][1] = mser["none"][1]
            /\ tracking[tt][1] = tracking["none"][1]

\* the files a call opens when it runs to its end, in order
ExpectedOpens ==
    [n \in 1..(1 + (Len(types) - 1) * Len(sizes)) |->
        IF n = 1 THEN <<"none", 8>>
        ELSE <<types[2 + ((n - 2) \div Len(sizes))], sizes[1 + ((n - 2) % Len(sizes))]>>]

\* C4: the only `none` file opened is none_8.txt; the files opened are, in
\* this order, none_8 and then for each of the four other types one file per
\* size, the 37 sizes increasing; a call that returns has opened them all.
C4_OpenedFiles ==
    /\ Len(sizes) = 37
    /\ \A n \in 1..(Len(sizes) - 1) : sizes[n] < sizes[n + 1]
    /\ \A n \in 1..Len(opened) : opened[n][1] = "none" => opened[n][2] = 8
    /\ Len(opened) <= Len(ExpectedOpens)
    /\ \A n \in 1..Len(opened) : opened[n] = ExpectedOpens[n]
    /\ (pc = "done" => opened = ExpectedOpens)
C4_Witness ==
    /\ pc = "done"
    /\ Len(opened) = 149
    /\ opened[1] = <<"none", 8>>
    /\ opened[149] = <<"prefetch_l3", 8192>>

\* C6: when every scan appended exactly one value per metric, on return each
\* non-baseline series has len(sizes) + 1 = 38 elements, element k >= 1 the
\* value in the file of the k-th size, and each `none` series one element.
C6_SeriesShape ==
    (pc = "done" /\ oneEach) =>
        /\ Len(disparity["none"]) = 1 /\ Len(mser["none"]) = 1 /\ Len(tracking["none"]) = 1
        /\ \A k \in 2..Len(types) :
            /\ Len(disparity[types[k]]) = 38
            /\ Len(mser[types[k]]) = 38
            /\ Len(tracking[types[k]]) = 38
            /\ \A j \in 1..Len(sizes) :
                LET f == FileLines(disk, k, j, dataset) IN
                /\ disparity[types[k]][j + 1] = ValueInFile(f, dataset, disparityName)
                /\ mser[types[k]][j + 1] = ValueInFile(f, dataset, mserName)
                /\ tracking[types[k]][j + 1] = ValueInFile(f, dataset, trackingName)
C6_Witness ==
    /\ pc = "done"
    /\ oneEach
    /\ Len(opened) = 149
    /\ Len(tracking["write"]) = 38

\* a line begins with `-`
Dash(line) == line # <<>> /\ line[1] = "-"
\* the values a finished scan appended, with their metric names, in order
Values(app) == [k \in 1..Len(app) |-> <<app[k].name, app[k].value>>]
\* what a section holding `names` should yield: one sample value per name
SampleValues(names) == [k \in 1..Len(names) |-> <<names[k], Float(SampleText(names[k]))>>]
\* the series of the scanned type are exactly the sample values of `names`
SeriesAreSamples(names) ==
    LET has(name) == \E k \in 1..Len(names) : names[k] = name
        want(name) == IF has(name) THEN <<Float(SampleText(name))>> ELSE <<>>
    IN  /\ disparity[t] = want(disparityName)
        /\ mser[t] = want(mserName)
        /\ tracking[t] = want(trackingName)

\* C2, as stated: marker line, directly followed by the name/value pairs,
\* then a blank line: one float is appended per metric name present, the
\* value on the line after the name.
C2_PairsRightAfterMarker ==
    (/\ disk.kind = "block"
     /\ disk.after = <<>>
     /\ disk.term = <<blank>>
     /\ pc = "for_s")
    => /\ Values(got) = SampleValues(disk.names)
       /\ SeriesAreSamples(disk.names)

\* C2, amended: marker line, one further line, then the name/value pairs,
\* then a blank line: the scan ends by break and one float is appended per
\* metric name present, the value on the line after the name.
C2_PairsAfterOneLine ==
    (/\ disk.kind = "block"
     /\ Len(disk.after) = 1
     /\ disk.term = <<blank>>)
    => /\ pc # "ValueError"
       /\ spin = 0
       /\ pc = "for_s" => /\ Values(got) = SampleValues(disk.names)
                          /\ SeriesAreSamples(disk.names)
C2_Witness ==
    /\ disk.kind = "block"
    /\ Len(disk.after) = 1
    /\ disk.term = <<blank>>
    /\ disk.names = <<disparityName, mserName, trackingName>>
    /\ pc = "for_s"
    /\ disparity[t] = <<Frac(3, 2)>>
    /\ mser[t] = <<Frac(2, 1)>>
    /\ tracking[t] = <<Frac(1, 2)>>

\* C5: an iteration that begins with the flag set and reads a line beginning
\* with `-` (either line of the pair) ends the scan, and nothing appended
\* comes from a pair after that one.
C5_StopsAtTerminator ==
    [][(/\ pc = "scan"
        /\ collect_data = 1
        /\ (Dash(ReadLine(file, pos)) \/ Dash(ReadLine(file, pos + 1))))
       => /\ pc' # "scan"
          /\ \A k \in 1..Len(got') : got'[k].at <= pos + 1]_vars
C5_Witness ==
    /\ pc = "for_s"
    /\ collect_data = 1
    /\ got # <<>>
    /\ pos >= 2
    /\ \E q \in {pos - 2, pos - 1} :
          Dash(ReadLine(file, q)) /\ ~IsFloatText(ReadLine(file, q))
    /\ ReadLine(file, pos - 2) # <<>> /\ ReadLine(file, pos - 1) # <<>>
    /\ \E k \in (pos + 1)..Len(file) : PairAt(file, k)

\* C7: the scan of any finite file ends: an iteration that begins at
\* end-of-file is the last one.
C7_ScanEndsAtEOF == pc = "scan" => spin = 0

\* the appends of the scan of f from p lines consumed and flag c, followed
\* for at most `fuel` further iterations (past the end of f nothing changes)
RECURSIVE ScanFrom(_, _, _, _, _)
ScanFrom(f, marker, p, c, fuel) ==
    LET r == LoopBody(f, marker, p, c)
    IN  IF r.ctl # "loop" \/ fuel = 0 THEN r.app
        ELSE r.app \o ScanFrom(f, marker, r.pos, r.collect_data, fuel - 1)
\* what the scan of the whole file f appends
Extracted(f, marker) == Values(ScanFrom(f, marker, 0, 0, Len(f) + 1))

\* C8, as stated: with the marker in the file, one more header line in
\* front of the file leaves the appended values the same.
C8_HeaderLineIrrelevant ==
    (ScanOver /\ FirstMarker(file, dataset) > 0)
    => Values(got) = Extracted(<<word>> \o file, dataset)

\* C8, amended: the same, provided the line right after the first marker
\* line is not the marker again.
C8_HeaderLineIrrelevantUnlessDoubled ==
    (/\ ScanOver
     /\ FirstMarker(file, dataset) > 0
     /\ SecondMarker(file, dataset) # FirstMarker(file, dataset) + 1)
    => Values(got) = Extracted(<<word>> \o file, dataset)
C8_Witness ==
    /\ pc = "for_s"
    /\ FirstMarker(file, dataset) = 2
    /\ SecondMarker(file, dataset) = 0
    /\ got # <<>>
    /\ Values(got) = Extracted(<<word>> \o file, dataset)

\* C9, as stated: with two sections under the requested marker, nothing is
\* appended from the second one.
C9_FirstSectionOnly ==
    SecondMarker(file, dataset) > 0
    => \A k \in 1..Len(got) : got[k].at < SecondMarker(file, dataset)

\* C9, amended: the same, provided the second marker line is not the line
\* right after the first.
C9_FirstSectionOnlyUnlessDoubled ==
    (/\ SecondMarker(file, dataset) > 0
     /\ SecondMarker(file, dataset) # FirstMarker(file, dataset) + 1)
    => \A k \in 1..Len(got) : got[k].at < SecondMarker(file, dataset)
C9_Witness ==
    /\ pc = "for_s"
    /\ got # <<>>
    /\ SecondMarker(file, dataset) > FirstMarker(file, dataset) + 1
    /\ \E k \in (SecondMarker(file, dataset) + 1)..Len(file) : PairAt(file, k)

\* C10: the flag is clear when a file is opened and, once set, stays set for
\* the rest of that file's scan; an append is made only by an iteration that
\* begins with the flag set; nothing is appended from a pair at or before the
\* first marker line.
C10_OneWayFlag ==
    [][/\ (pc = "open" /\ pc' = "scan" => collect_data' = 0)
       /\ (pc = "scan" /\ collect_data = 1 => collect_data' = 1)
       /\ (got' # got => pc = "scan" /\ collect_data = 1)
       /\ \A k \in 1..Len(got') :
            /\ FirstMarker(file, dataset) > 0
            /\ got'[k].at > FirstMarker(file, dataset)]_vars
C10_Witness ==
    /\ pc = "for_s"
    /\ got # <<>>
    /\ \E k \in 1..FirstMarker(file, dataset) : PairAt(file, k)

=============================================================================
